---------------------------- MODULE Spec2Model ----------------------------
(***************************************************************************)
(* A model of umash's exact permutation test driver:                       *)
(*   t/exact_test.py          statistics, plan grouping, the queue-based   *)
(*                            parallel generator, the CSM decision loop    *)
(*   t/exact_test_sampler.py  the future-based parallel generator with     *)
(*                            growing batch sizes                          *)
(*                                                                         *)
(* Python dicts are insertion ordered: a dict is modelled as a sequence of *)
(* [key, val] records with distinct keys, in insertion order.              *)
(* Floating point quantities are modelled as exact rationals (eps) or as   *)
(* tokens (probability_a_lower is the probability in percent).             *)
(***************************************************************************)
EXTENDS Integers, Sequences, FiniteSets, TLC

VARIABLES
    mode,          \* which entry point this behaviour exercises
    statistics,    \* exact_test's `statistics` argument: a list of Statistic
    ncpu,          \* os.cpu_count()
    data,          \* the sample: per statistic, its value on the actual
                   \* labelling and its value on a permutation
    eps,           \* exact_test's eps, after the Bonferroni correction
    plan,          \* result of the last _group_statistics_in_plan call
    sig_in,        \* arguments of one _significance_test call
    sig_out,       \* the `ret` dict after that call
    pc,            \* where exact_test and the generator it drives stand
    actual_stats,  \* exact_test: dict name -> value on the actual data
    accumulators,  \* exact_test: dict name -> ResultAccumulator
    ret,           \* exact_test: dict name -> Result
    seen,          \* exact_test: samples consumed
    test_every,    \* exact_test: distance between significance tests
    result,        \* the dict exact_test returned, once pc = "done"
    error,         \* the type of the exception raised, once pc = "raised"
    error_args,    \* the arguments of that exception
    tested,        \* exact_test: [at, names] of its last round of tests
    pool,          \* "none", "open" or "terminated"
    pending,       \* _generate_in_parallel: list of futures
    queue,         \* t/exact_test.py: the managed queue of batches
    gen,           \* generate_values: the generator it is iterating
    values,        \* the list `yield from values` is walking
    pulls,         \* rounds of the generator's main loop so far
    batch_size,    \* t/exact_test_sampler.py: _generate_in_parallel's batch_size
    fill,          \* fill_pending_list: iterations of its loop so far
    room,          \* tasks the pool's pipe to its workers can hold
    worker,        \* one run of t/exact_test_sampler.py's worker function
    POOL,          \* t/exact_test_sampler.py: the global POOL, 0 for None
    POOL_LOCK,     \* the thread holding POOL_LOCK, 0 for none
    constructed,   \* Pool objects constructed so far
    callers        \* threads calling _get_pool: where each stands, what it got

inputVars == <<mode, ncpu, statistics, data>>
pureVars == <<plan, sig_in, sig_out>>
testVars == <<eps, actual_stats, accumulators, ret, seen, test_every, result, error, error_args, tested>>
genVars == <<pool, pending, queue, gen, values, pulls>>
sampVars == <<batch_size, fill, room>>
sideVars == <<worker, POOL, POOL_LOCK, constructed, callers>>
vars == <<inputVars, pureVars, pc, testVars, genVars, sampVars, sideVars>>

-----------------------------------------------------------------------------
(* Bounds of the model.                                                    *)

\* longest statistics list handed to _group_statistics_in_plan
MaxLen == 3
\* largest trial count handed to _significance_test on its own
MaxTrials == 5
\* exact_test consumes at most this many samples
MaxSeen == 500
\* the generator's main loop runs at most this many rounds: the controller
\* finds the queue empty at most this often
MaxPulls == 3
\* a stream of whole batches is followed up to this many samples
MaxStream == 12500
\* t/exact_test_sampler.py: the pending list holds at most this many futures
MaxPending == 5

-----------------------------------------------------------------------------
(* Insertion-ordered dicts.                                                *)

DictKeys(d) == [i \in 1..Len(d) |-> d[i].key]

DictHas(d, k) == \E i \in 1..Len(d) : d[i].key = k

DictGet(d, k) == d[CHOOSE i \in 1..Len(d) : d[i].key = k].val

\* d[k] = v: an existing key keeps its position, a new key goes last
DictSet(d, k, v) ==
    IF DictHas(d, k)
    THEN [i \in 1..Len(d) |-> IF d[i].key = k THEN [key |-> k, val |-> v] ELSE d[i]]
    ELSE Append(d, [key |-> k, val |-> v])

Range(s) == {s[i] : i \in 1..Len(s)}

-----------------------------------------------------------------------------
(* Statistic descriptors.  fn_name and fn_args select the opaque C kernel  *)
(* and play no part in grouping or in the decision loop; they are left out *)
(* of the record.                                                          *)

Names == {"mu", "med"}

\* probability_a_lower, in percent
Probabilities == {50, 25}

Offsets == {0, 1}

Statistic ==
    [name : Names, probability_a_lower : Probabilities,
     a_offset : Offsets, b_offset : Offsets]

-----------------------------------------------------------------------------
(* _group_statistics_in_plan                                               *)

\* plan[p_a_lower][offsets] = [stat]: the list is replaced, not appended to
PlanAssign(pl, stat) ==
    LET p_a_lower == stat.probability_a_lower
        offsets   == <<stat.a_offset, stat.b_offset>>
        for_p     == IF DictHas(pl, p_a_lower) THEN DictGet(pl, p_a_lower) ELSE <<>>
    IN  DictSet(pl, p_a_lower, DictSet(for_p, offsets, <<stat>>))

\* plan[p_a_lower][offsets].append(stat), on defaultdicts
PlanAppend(pl, stat) ==
    LET p_a_lower == stat.probability_a_lower
        offsets   == <<stat.a_offset, stat.b_offset>>
        for_p     == IF DictHas(pl, p_a_lower) THEN DictGet(pl, p_a_lower) ELSE <<>>
        for_offs  == IF DictHas(for_p, offsets) THEN DictGet(for_p, offsets) ELSE <<>>
    IN  DictSet(pl, p_a_lower, DictSet(for_p, offsets, Append(for_offs, stat)))

RECURSIVE GroupFrom(_, _)
GroupFrom(pl, stats) ==
    IF stats = <<>> THEN pl
    ELSE GroupFrom(PlanAppend(pl, Head(stats)), Tail(stats))

_group_statistics_in_plan(stats) == GroupFrom(<<>>, stats)

RECURSIVE Flatten(_)
\* concatenation of a sequence of sequences
Flatten(ss) == IF ss = <<>> THEN <<>> ELSE Head(ss) \o Flatten(Tail(ss))

\* the statistics of a plan in the order compute_results walks them
PlanStats(pl) ==
    Flatten([i \in 1..Len(pl) |->
        Flatten([j \in 1..Len(pl[i].val) |-> pl[i].val[j].val])])

-----------------------------------------------------------------------------
(* _significance_test                                                      *)

\* Result, without the sample sizes m and n (the sample is not modelled)
Result(actual, judgement, trials) ==
    [actual_value |-> actual, judgement |-> judgement, num_trials |-> trials]

\* count / trials < e, for e = e.num / e.den and trials > 0
RatioBelow(count, trials, e) == count * e.den < e.num * trials

\* lte_actual / trials or gte_actual / trials is evaluated with trials = 0
SignificanceDividesByZero(trials, lt_significant, gt_significant) ==
    trials = 0 /\ (lt_significant \/ gt_significant)

\* _significance_test with the high tail looked at before the low tail
SignificanceTestHighFirst(rt, e, name, actual, lte_actual, gte_actual, trials, lt_significant, gt_significant) ==
    IF gt_significant /\ RatioBelow(gte_actual, trials, e)
    THEN DictSet(rt, name, Result(actual, 1, trials))
    ELSE IF lt_significant /\ RatioBelow(lte_actual, trials, e)
    THEN DictSet(rt, name, Result(actual, -1, trials))
    ELSE IF lt_significant /\ gt_significant
    THEN DictSet(rt, name, Result(actual, 0, trials))
    ELSE rt

\* The `ret` dict after _significance_test(ret, eps, ..., name, ...), where
\* lt_significant and gt_significant are what csm returned for lte_actual
\* and gte_actual.
_significance_test(rt, e, name, actual, lte_actual, gte_actual, trials, lt_significant, gt_significant) ==
    LET count_in_middle ==
            (IF lt_significant THEN 1 ELSE 0) + (IF gt_significant THEN 1 ELSE 0)
    IN  IF lt_significant /\ RatioBelow(lte_actual, trials, e)
        THEN DictSet(rt, name, Result(actual, -1, trials))
        ELSE IF gt_significant /\ RatioBelow(gte_actual, trials, e)
        THEN DictSet(rt, name, Result(actual, 1, trials))
        ELSE IF count_in_middle = 2
        THEN DictSet(rt, name, Result(actual, 0, trials))
        ELSE rt

-----------------------------------------------------------------------------
(* The permutation kernel: _resampled_data_results_1.compute_results.      *)
(* The statistic kernels are opaque; `data` gives, per statistic, the      *)
(* value on the actual labelling and the value a permutation yields.       *)

Values == {0, 1, 2}

RECURSIVE ResultsFrom(_, _)
\* results[stat.name] = value, for the statistics in plan order
ResultsFrom(results, stats) ==
    IF stats = <<>> THEN results
    ELSE ResultsFrom(DictSet(results, Head(stats).name, data[Head(stats).name].null),
                     Tail(stats))

compute_results(grouped_statistics) == ResultsFrom(<<>>, PlanStats(grouped_statistics))

-----------------------------------------------------------------------------
(* exact_test: entry, accumulators, decision loop                          *)

\* eps /= num_stats * 1.1: the correction of a one-sided test
CorrectedEpsOneSided(e, num_stats) == [num |-> e.num * 10, den |-> e.den * 11 * num_stats]

\* eps *= 2 * num_stats * 1.1
CorrectedEpsTimes(e, num_stats) == [num |-> e.num * 22 * num_stats, den |-> e.den * 10]

\* eps /= 2 * num_stats * 1.1
CorrectedEps(e, num_stats) == [num |-> e.num * 10, den |-> e.den * 22 * num_stats]

\* log_inner_eps = math.log(eps / 10) raises ValueError: eps / 10 <= 0
LogRaises(e) == e.num <= 0

ResultAccumulator == [trials |-> 0, lte_actual |-> 0, gte_actual |-> 0]

RECURSIVE ActualFrom(_, _)
\* _actual_data_results: results[stat.name] = value, in `statistics` order
ActualFrom(results, stats) ==
    IF stats = <<>> THEN results
    ELSE ActualFrom(DictSet(results, Head(stats).name, data[Head(stats).name].actual),
                    Tail(stats))

_actual_data_results(stats) == ActualFrom(<<>>, stats)

\* a plan of every statistic, decided or not
GroupAllStatistics(rt) == _group_statistics_in_plan(statistics)

\* group_unfathomed_statistics with `if stat.name in ret`
group_fathomed_statistics(rt) ==
    _group_statistics_in_plan(SelectSeq(statistics, LAMBDA st : DictHas(rt, st.name)))

\* group_unfathomed_statistics: the plan of the statistics with no result
group_unfathomed_statistics(rt) ==
    _group_statistics_in_plan(SelectSeq(statistics, LAMBDA st : ~DictHas(rt, st.name)))

\* Accumulate with `lte_actual=current.trials + 1`: the count depends on
\* what was consumed before
AccumulateFromTrials(current, stat, actual, k) ==
    LET c1 == IF stat <= actual
              THEN [current EXCEPT !.lte_actual = current.trials + k] ELSE current
        c2 == IF stat >= actual
              THEN [c1 EXCEPT !.gte_actual = @ + k] ELSE c1
    IN  [c2 EXCEPT !.trials = @ + k]

\* Accumulate with the trials update inside `if stat >= actual`
AccumulateTrialsIndented(current, stat, actual, k) ==
    LET c1 == IF stat <= actual
              THEN [current EXCEPT !.lte_actual = @ + k] ELSE current
    IN  IF stat >= actual
        THEN [c1 EXCEPT !.gte_actual = @ + k, !.trials = @ + k]
        ELSE c1

\* Accumulate with `elif stat >= actual`: a tie counts as lower only
AccumulateElif(current, stat, actual, k) ==
    LET c1 == IF stat <= actual
              THEN [current EXCEPT !.lte_actual = @ + k]
              ELSE [current EXCEPT !.gte_actual = @ + k]
    IN  [c1 EXCEPT !.trials = @ + k]

\* Accumulate without `trials=current.trials + 1`
AccumulateNoTrials(current, stat, actual, k) ==
    LET c1 == IF stat <= actual
              THEN [current EXCEPT !.lte_actual = @ + k] ELSE current
    IN  IF stat >= actual
        THEN [c1 EXCEPT !.gte_actual = @ + k] ELSE c1

\* Accumulate with strict comparisons: a tie counts on neither side
AccumulateStrict(current, stat, actual, k) ==
    LET c1 == IF stat < actual
              THEN [current EXCEPT !.lte_actual = @ + k] ELSE current
        c2 == IF stat > actual
              THEN [c1 EXCEPT !.gte_actual = @ + k] ELSE c1
    IN  [c2 EXCEPT !.trials = @ + k]

\* (name, stat) of k equal samples folded into name's accumulator; the loop
\* body is the case k = 1
Accumulate(current, stat, actual, k) ==
    LET c1 == IF stat <= actual
              THEN [current EXCEPT !.lte_actual = @ + k] ELSE current
        c2 == IF stat >= actual
              THEN [c1 EXCEPT !.gte_actual = @ + k] ELSE c1
    IN  [c2 EXCEPT !.trials = @ + k]

\* for name, stat in sample.items(): accumulators[name] = ..., k times over
AccumulateSample(accs, sample, k) ==
    [i \in 1..Len(accs) |->
        IF DictHas(sample, accs[i].key)
        THEN [key |-> accs[i].key,
              val |-> Accumulate(accs[i].val, DictGet(sample, accs[i].key),
                                 DictGet(actual_stats, accs[i].key), k)]
        ELSE accs[i]]

RECURSIVE TestFromNoSkip(_, _, _, _)
\* TestFrom without `if name in ret: continue`
TestFromNoSkip(accs, rt, sample, csm) ==
    IF accs = <<>> THEN [ret |-> rt, err |-> "none", args |-> <<>>, names |-> {}]
    ELSE LET name == Head(accs).key
             acc  == Head(accs).val
             sig  == IF name \in DOMAIN csm THEN csm[name] ELSE <<TRUE, TRUE>>
             more == TestFromNoSkip(Tail(accs),
                                    _significance_test(rt, eps, name, DictGet(actual_stats, name),
                                                       acc.lte_actual, acc.gte_actual, acc.trials,
                                                       sig[1], sig[2]),
                                    sample, csm)
         IN  IF ~DictHas(sample, name)
             THEN [ret |-> rt, err |-> "KeyError", args |-> <<name>>, names |-> {}]
             ELSE IF SignificanceDividesByZero(acc.trials, sig[1], sig[2])
             THEN [ret |-> rt, err |-> "ZeroDivisionError", args |-> <<"division by zero">>,
                   names |-> {name}]
             ELSE [more EXCEPT !.names = @ \cup {name}]

RECURSIVE TestFrom(_, _, _, _)
\* The loop over accumulators.items() at a test point: the `ret` it leaves,
\* the exception it raises (err, args) and the names _significance_test was
\* called for.  csm maps each name to what the two csm calls answer for it.
\* The loop stops at the first name whose sample[name] or division raises.
TestFrom(accs, rt, sample, csm) ==
    IF accs = <<>> THEN [ret |-> rt, err |-> "none", args |-> <<>>, names |-> {}]
    ELSE LET name == Head(accs).key
             acc  == Head(accs).val
             more == TestFrom(Tail(accs),
                              _significance_test(rt, eps, name, DictGet(actual_stats, name),
                                                 acc.lte_actual, acc.gte_actual, acc.trials,
                                                 csm[name][1], csm[name][2]),
                              sample, csm)
         IN  IF DictHas(rt, name) THEN TestFrom(Tail(accs), rt, sample, csm)
             ELSE IF ~DictHas(sample, name)
             THEN [ret |-> rt, err |-> "KeyError", args |-> <<name>>, names |-> {}]
             ELSE IF SignificanceDividesByZero(acc.trials, csm[name][1], csm[name][2])
             THEN [ret |-> rt, err |-> "ZeroDivisionError", args |-> <<"division by zero">>,
                   names |-> {name}]
             ELSE [more EXCEPT !.names = @ \cup {name}]

\* len(ret) > len(actual_stats)
MoreThanFathomed(rt) == Len(rt) > Len(actual_stats)

\* len(ret) == len(actual_stats)
AllFathomed(rt) == Len(rt) = Len(actual_stats)

\* the results in the order they were decided
ReturnedInDecisionOrder(rt) == rt

\* {name: ret[name] for name in actual_stats}
ReturnedMap(rt) ==
    [i \in 1..Len(actual_stats) |->
        [key |-> actual_stats[i].key, val |-> DictGet(rt, actual_stats[i].key)]]

\* the model follows exact_test up to this many samples
SeenLimit == IF mode = "schedule" THEN MaxStream ELSE MaxSeen

\* if seen >= 4 * test_every: test_every *= 10
NextTestEveryEarly(s, te) == IF s >= 4 * te THEN te * 10 ELSE te

\* if seen >= 40 * test_every: test_every *= 10
NextTestEvery(s, te) == IF s >= 40 * te THEN te * 10 ELSE te

\* how many samples of a list of n equal samples the loop takes up to and
\* including the first that reaches a test point
RunLength(n) ==
    LET to_test == test_every - (seen % test_every)
        k       == IF n < to_test THEN n ELSE to_test
    IN  IF seen + k > SeenLimit THEN SeenLimit - seen ELSE k

\* names with an accumulator and no result
Unfathomed(accs, rt) == {accs[i].key : i \in {j \in 1..Len(accs) : ~DictHas(rt, accs[j].key)}}

-----------------------------------------------------------------------------
(* t/exact_test.py: _generate_in_parallel, the queue-based generator       *)

\* batch_size = 10 * ncpu
BatchSize == 10 * ncpu

\* Manager().Queue(maxsize=4 * ncpu)
QueueMaxSize == 4 * ncpu

\* the arguments pool.apply_async gets from add_work_unit, as a future
WorkUnit(rt, initial_batch_size, return_after) ==
    [plan |-> group_unfathomed_statistics(rt), batch_size |-> initial_batch_size,
     max_batch_size |-> BatchSize, return_after |-> return_after,
     total |-> 0, st |-> "queued", out |-> 0]

Running(pnd) == {i \in 1..Len(pnd) : pnd[i].st = "running"}

Ready(pnd) == {i \in 1..Len(pnd) : pnd[i].st = "ready"}

\* Tasks that returned and whose result the pool has not handled yet; `out`
\* is a task's place in the pool's result queue.
Returned(pnd) == {i \in 1..Len(pnd) : pnd[i].st = "returned"}

\* if not statistics: return dict()
ReturnEmpty ==
    /\ result' = <<>>
    /\ pc' = "done"
    /\ UNCHANGED <<eps, actual_stats, accumulators, ret, seen, test_every, error, error_args, tested>>

\* exact_test from the Bonferroni correction to the start of its loop
Setup ==
    /\ eps' = CorrectedEps(eps, Len(statistics))
    /\ IF LogRaises(eps')
       THEN /\ pc' = "raised"
            /\ error' = "ValueError"
            /\ error_args' = <<"math domain error">>
            /\ UNCHANGED <<actual_stats, accumulators, ret, seen, test_every, result, tested>>
       ELSE /\ actual_stats' = _actual_data_results(statistics)
            /\ accumulators' =
                   [i \in 1..Len(actual_stats') |->
                       [key |-> actual_stats'[i].key, val |-> ResultAccumulator]]
            /\ ret' = <<>>
            /\ seen' = 0
            /\ test_every' = 250
            /\ pc' = "enter"
            /\ UNCHANGED <<result, error, error_args, tested>>

\* exact_test without its `if not statistics` check
StartWithoutCheck ==
    /\ pc = "start"
    /\ Setup
    /\ UNCHANGED <<inputVars, pureVars, genVars, sampVars, sideVars>>

\* exact_test up to its loop
Start ==
    /\ pc = "start"
    /\ IF statistics = <<>> THEN ReturnEmpty ELSE Setup
    /\ UNCHANGED <<inputVars, pureVars, genVars, sampVars, sideVars>>

\* The first next() on the generator: the pool and the initial work units.
OpenPool ==
    /\ pc = "enter"
    /\ pool' = "open"
    /\ pending' =
           [i \in 1..(ncpu + 2) |->
               IF i <= ncpu THEN WorkUnit(ret, 0, 2 * BatchSize)
               ELSE WorkUnit(ret, BatchSize, 2 * BatchSize)]
    /\ pc' = "pull"
    /\ UNCHANGED <<inputVars, pureVars, testVars, queue, gen, values, pulls, sampVars, sideVars>>

\* One round of `for value in generate_values()`: the next local value,
\* consume_completed_futures, one new work unit per completed future.
PullValue ==
    /\ pc = "pull"
    /\ pulls < MaxPulls
    /\ pulls' = pulls + 1
    /\ LET sample == IF gen.i = 0
                     THEN compute_results(group_unfathomed_statistics(ret))
                     ELSE gen.sample
           active == SelectSeq(pending, LAMBDA f : f.st # "ready")
           fresh  == [j \in 1..Cardinality(Ready(pending)) |->
                         WorkUnit(ret, BatchSize, 5 * BatchSize)]
       IN  /\ gen' = [i |-> (gen.i + 1) % BatchSize, sample |-> sample]
           /\ pending' = active \o fresh
           /\ values' = [sample |-> sample, n |-> 1]
    /\ pc' = "yield"
    /\ UNCHANGED <<inputVars, pureVars, testVars, pool, queue, sampVars, sideVars>>

\* values = get_nowait()
GetNowait ==
    /\ pc = "get"
    /\ IF queue = <<>>
       THEN /\ pc' = "pull"
            /\ UNCHANGED <<queue, values>>
       ELSE /\ values' = Head(queue)
            /\ queue' = Tail(queue)
            /\ pc' = "yield"
    /\ UNCHANGED <<inputVars, pureVars, testVars, pool, pending, gen, pulls, sampVars, sideVars>>

\* The generator is dropped while suspended at its yield: the finally
\* clause and the with statement terminate the pool it opened.
Closed(p) == IF p = "open" THEN "terminated" ELSE p

\* `yield from values` hands the next samples of `values` to exact_test,
\* which runs the body of its loop on each, up to and including the first
\* that reaches a test point.  The samples of one list are equal, and
\* between two of them the generator touches nothing the workers share.
Consume ==
    /\ pc = "yield"
    /\ seen < SeenLimit
    /\ LET sample == values.sample
           k      == RunLength(values.n)
           accs   == AccumulateSample(accumulators, sample, k)
           rest   == values.n - k
       IN  /\ accumulators' = accs
           /\ seen' = seen + k
           /\ IF seen' % test_every # 0
              THEN /\ UNCHANGED <<ret, test_every, result, error, error_args, tested, pool>>
                   /\ values' = [values EXCEPT !.n = rest]
                   /\ pc' = IF rest = 0 THEN "get" ELSE "yield"
              ELSE /\ test_every' = NextTestEvery(seen', test_every)
                   /\ \E csm \in [Unfathomed(accs, ret) -> BOOLEAN \X BOOLEAN] :
                        LET t == TestFrom(accs, ret, sample, csm)
                        IN  /\ ret' = t.ret
                            /\ tested' = [at |-> seen', names |-> t.names]
                            /\ IF t.err # "none"
                               THEN /\ pc' = "raised"
                                    /\ error' = t.err
                                    /\ error_args' = t.args
                                    /\ pool' = Closed(pool)
                                    /\ UNCHANGED <<values, result>>
                               ELSE IF AllFathomed(t.ret)
                               THEN /\ pc' = "done"
                                    /\ result' = ReturnedMap(t.ret)
                                    /\ pool' = Closed(pool)
                                    /\ UNCHANGED <<values, error, error_args>>
                               ELSE /\ values' = [values EXCEPT !.n = rest]
                                    /\ pc' = IF rest = 0 THEN "get" ELSE "yield"
                                    /\ UNCHANGED <<result, error, error_args, pool>>
    /\ UNCHANGED <<inputVars, pureVars, eps, actual_stats, pending, queue, gen, pulls, sampVars, sideVars>>

\* an idle pool process takes the oldest task
WorkerTake ==
    /\ pool = "open"
    /\ Cardinality(Running(pending)) < ncpu - 1
    /\ \E i \in 1..Len(pending) :
         /\ pending[i].st = "queued"
         /\ \A j \in 1..(i - 1) : pending[j].st # "queued"
         /\ pending' = [pending EXCEPT ![i].st = "running"]
    /\ UNCHANGED <<inputVars, pureVars, pc, testVars, pool, queue, gen, values, pulls, sampVars, sideVars>>

\* _generate_in_parallel_worker fills one batch and puts it on the queue
WorkerPut ==
    /\ pool = "open"
    /\ Len(queue) < QueueMaxSize
    /\ \E i \in Running(pending) :
         LET f     == pending[i]
             size  == IF f.batch_size = 0 THEN 1 ELSE f.batch_size
             total == f.total + size
         IN  /\ queue' = Append(queue, [sample |-> compute_results(f.plan), n |-> size])
             /\ pending' =
                    [pending EXCEPT ![i] =
                        IF total >= f.return_after
                        THEN [f EXCEPT !.total = total, !.st = "returned",
                                       !.out = Cardinality(Returned(pending)) + 1]
                        ELSE [f EXCEPT !.total = total,
                                       !.batch_size =
                                           IF @ < f.max_batch_size THEN @ + 1 ELSE @]]
    /\ UNCHANGED <<inputVars, pureVars, pc, testVars, pool, gen, values, pulls, sampVars, sideVars>>

\* the pool's result handler takes the oldest result and marks its future
\* ready
HandleResult ==
    /\ pool = "open"
    /\ Returned(pending) # {}
    /\ pending' =
           [i \in 1..Len(pending) |->
               IF pending[i].st # "returned" THEN pending[i]
               ELSE IF pending[i].out = 1
               THEN [pending[i] EXCEPT !.st = "ready", !.out = 0]
               ELSE [pending[i] EXCEPT !.out = @ - 1]]
    /\ UNCHANGED <<inputVars, pureVars, pc, testVars, pool, queue, gen, values, pulls, sampVars, sideVars>>

-----------------------------------------------------------------------------
(* Inputs of exact_test                                                    *)

Stat(name, p_a_lower, a_offset, b_offset) ==
    [name |-> name, probability_a_lower |-> p_a_lower,
     a_offset |-> a_offset, b_offset |-> b_offset]

\* the statistics lists exact_test is run on: unique names, one or two
\* groups in the plan
StatLists ==
    {<<>>,
     <<Stat("mu", 50, 0, 0)>>,
     <<Stat("mu", 50, 0, 0), Stat("med", 50, 0, 0)>>,
     <<Stat("mu", 50, 0, 0), Stat("med", 25, 1, 0)>>}

\* The samples exact_test is run on.  Per statistic: its value on the actual
\* data and its value on a permutation, which is below, equal to or above
\* the actual value; "med" mirrors "mu".
Datasets ==
    {[n \in Names |-> [actual |-> 1, null |-> IF n = "mu" THEN v ELSE 2 - v]] : v \in Values}

CpuCounts == {2}

NoSigIn ==
    [ret |-> <<>>, base |-> [num |-> 0, den |-> 1], num_stats |-> 0,
     eps |-> [num |-> 0, den |-> 1], trials |-> 0, lte_actual |-> 0,
     gte_actual |-> 0, lt_significant |-> FALSE, gt_significant |-> FALSE]

PureIdle == plan = <<>> /\ sig_in = NoSigIn /\ sig_out = <<>>

\* no round of tests was run
NoTest == [at |-> 0, names |-> {}]

TestIdle ==
    /\ actual_stats = <<>>
    /\ accumulators = <<>>
    /\ ret = <<>>
    /\ seen = 0
    /\ test_every = 0
    /\ result = <<>>
    /\ error = "none"
    /\ error_args = <<>>
    /\ tested = NoTest

GenIdle ==
    /\ pool = "none"
    /\ pending = <<>>
    /\ queue = <<>>
    /\ gen = [i |-> 0, sample |-> <<>>]
    /\ values = [sample |-> <<>>, n |-> 0]
    /\ pulls = 0

SampIdle == batch_size = 0 /\ fill = 0 /\ room = 0

\* no worker function is run
NoWorker ==
    [max_results |-> 0, max_delay |-> 0, now |-> 0, end |-> 0, results |-> 0,
     exc |-> [type |-> "none", args |-> <<>>], st |-> "none"]

SideIdle ==
    /\ worker = NoWorker
    /\ POOL = 0
    /\ POOL_LOCK = 0
    /\ constructed = 0
    /\ callers = <<>>

Init ==
    /\ mode = "exact_test"
    /\ ncpu \in CpuCounts
    /\ statistics \in StatLists
    /\ data \in Datasets
    /\ eps = [num |-> 1, den |-> 10000]
    /\ pc = "start"
    /\ PureIdle
    /\ TestIdle
    /\ GenIdle
    /\ SampIdle
    /\ SideIdle

Next ==
    \/ Start
    \/ OpenPool
    \/ PullValue
    \/ GetNowait
    \/ Consume
    \/ WorkerTake
    \/ WorkerPut
    \/ HandleResult

Spec == Init /\ [][Next]_vars

-----------------------------------------------------------------------------
(* _group_statistics_in_plan on its own                                    *)

\* all sequences over S of length at most n
SeqsUpTo(S, n) == UNION {[1..m -> S] : m \in 0..n}

InitGroup ==
    /\ mode = "group"
    /\ ncpu \in CpuCounts
    /\ statistics \in SeqsUpTo(Statistic, MaxLen)
    /\ data \in {d \in Datasets : d["mu"].null = 1}
    /\ eps = [num |-> 1, den |-> 10000]
    /\ pc = "group"
    /\ PureIdle
    /\ TestIdle
    /\ GenIdle
    /\ SampIdle
    /\ SideIdle

Group ==
    /\ pc = "group"
    /\ plan' = _group_statistics_in_plan(statistics)
    /\ pc' = "grouped"
    /\ UNCHANGED <<inputVars, sig_in, sig_out, testVars, genVars, sampVars, sideVars>>

SpecGroup == InitGroup /\ [][Group]_vars

-----------------------------------------------------------------------------
(* _significance_test on its own                                           *)

\* the eps exact_test is called with, before its correction
SigEps == {[num |-> 9, den |-> 10], [num |-> 1, den |-> 2]}

\* the `ret` a call finds: empty, or holding another statistic's result
SigPrior == {<<>>, <<[key |-> "med", val |-> Result(1, 0, 1)]>>}

InitSig ==
    /\ mode = "sig"
    /\ ncpu \in CpuCounts
    /\ statistics = <<>>
    /\ data \in {d \in Datasets : d["mu"].null = 1}
    /\ eps = [num |-> 1, den |-> 10000]
    /\ pc = "sig"
    /\ plan = <<>>
    /\ \E base \in SigEps, num_stats \in 1..MaxLen :
           sig_in \in [ret : SigPrior, base : {base}, num_stats : {num_stats},
                       eps : {CorrectedEps(base, num_stats)}, trials : 1..MaxTrials,
                       lte_actual : 0..MaxTrials, gte_actual : 0..MaxTrials,
                       lt_significant : BOOLEAN, gt_significant : BOOLEAN]
    /\ sig_out = <<>>
    /\ TestIdle
    /\ GenIdle
    /\ SampIdle
    /\ SideIdle

SignificanceTest ==
    /\ pc = "sig"
    /\ sig_out' = _significance_test(sig_in.ret, sig_in.eps, "mu", data["mu"].actual,
                                     sig_in.lte_actual, sig_in.gte_actual, sig_in.trials,
                                     sig_in.lt_significant, sig_in.gt_significant)
    /\ pc' = "sig_done"
    /\ UNCHANGED <<inputVars, plan, sig_in, testVars, genVars, sampVars, sideVars>>

SpecSig == InitSig /\ [][SignificanceTest]_vars

-----------------------------------------------------------------------------
(* exact_test's loop on arbitrary samples, in any order                    *)

\* the loop is fed at most this many samples
MaxFold == 4

\* largest max_results a worker run is given
MaxResults == 4

\* largest max_delay a worker run is given, in ticks of the monotonic clock
MaxDelay == 3

\* most ticks the generator spends on one value
MaxTick == 2

\* threads that call _get_pool
MaxThreads == 3

\* calls of _get_pool one thread makes
MaxCalls == 2

\* mappings in the multiset the workers deliver
MaxMerge == 3

RECURSIVE SamplesOver(_)
\* every mapping with keys among `names`, in the order of `names`
SamplesOver(names) ==
    IF names = <<>> THEN {<<>>}
    ELSE LET rest == SamplesOver(Tail(names))
         IN  rest \cup {<<[key |-> Head(names), val |-> v]>> \o r : v \in Values, r \in rest}

\* the statistics lists the loop is run on: those of StatLists and one
\* that uses a name twice
FoldStatLists == StatLists \cup {<<Stat("mu", 50, 0, 0), Stat("mu", 25, 1, 0)>>}

\* the eps exact_test is called with: its default 1e-4, 0 and 3/2
FoldEps == {[num |-> 1, den |-> 10000], [num |-> 0, den |-> 1], [num |-> 3, den |-> 2]}

InitFold ==
    /\ mode = "fold"
    /\ ncpu \in CpuCounts
    /\ statistics \in FoldStatLists
    /\ data \in {d \in Datasets : d["mu"].null = 1}
    /\ eps \in FoldEps
    /\ pc = "start"
    /\ PureIdle
    /\ TestIdle
    /\ GenIdle
    /\ SampIdle
    /\ SideIdle

\* the generator yields some mapping
Offer ==
    /\ pc \in {"enter", "get"}
    /\ seen < MaxFold
    /\ \E sample \in SamplesOver(DictKeys(actual_stats)) :
         values' = [sample |-> sample, n |-> 1]
    /\ pc' = "yield"
    /\ UNCHANGED <<inputVars, pureVars, testVars, pool, pending, queue, gen, pulls, sampVars, sideVars>>

NextFold == Start \/ Offer \/ Consume

SpecFold == InitFold /\ [][NextFold]_vars

-----------------------------------------------------------------------------
(* exact_test's loop on a multiset of mappings that reaches it in any      *)
(* order: the workers' results interleave arbitrarily.  `queue` lists the  *)
(* mappings; an entry's n is 1 until it is consumed, and `at` is then its  *)
(* place in the order of consumption.                                      *)

InitMerge ==
    /\ mode = "merge"
    /\ ncpu \in CpuCounts
    /\ statistics \in StatLists \ {<<>>}
    /\ data \in {d \in Datasets : d["mu"].null = 1}
    /\ eps = [num |-> 1, den |-> 10000]
    /\ pc = "start"
    /\ PureIdle
    /\ TestIdle
    /\ GenIdle
    /\ SampIdle
    /\ SideIdle

\* the workers produce some mappings
Arrive ==
    /\ mode = "merge"
    /\ pc = "enter"
    /\ \E len \in 0..MaxMerge :
         queue' \in [1..len -> [sample : SamplesOver(DictKeys(actual_stats)),
                                n : {1}, at : {0}]]
    /\ pc' = "get"
    /\ UNCHANGED <<inputVars, pureVars, testVars, pool, pending, gen, values, pulls, sampVars, sideVars>>

\* the generator yields any one of the mappings not consumed yet
TakeAny ==
    /\ mode = "merge"
    /\ pc = "get"
    /\ \E i \in 1..Len(queue) :
         /\ queue[i].n = 1
         /\ values' = [sample |-> queue[i].sample, n |-> 1]
         /\ queue' = [queue EXCEPT ![i].n = 0, ![i].at = seen + 1]
    /\ pc' = "yield"
    /\ UNCHANGED <<inputVars, pureVars, testVars, pool, pending, gen, pulls, sampVars, sideVars>>

NextMerge == Start \/ Arrive \/ TakeAny \/ Consume

SpecMerge == InitMerge /\ [][NextMerge]_vars

RECURSIVE FoldSeq(_, _)
\* the accumulators after the loop body has run on the mappings of q, first
\* to last
FoldSeq(accs, q) ==
    IF q = <<>> THEN accs
    ELSE FoldSeq(AccumulateSample(accs, Head(q).sample, 1), Tail(q))

-----------------------------------------------------------------------------
(* exact_test's loop on a long stream: the generator hands over whole      *)
(* lists of values of the current plan, far enough for test_every to grow. *)

\* lengths of the lists the generator hands over
BatchLengths == {125, 250}

InitSchedule ==
    /\ mode = "schedule"
    /\ ncpu \in CpuCounts
    /\ statistics \in StatLists \ {<<>>}
    /\ data \in Datasets
    /\ eps = [num |-> 1, den |-> 10]
    /\ pc = "start"
    /\ PureIdle
    /\ TestIdle
    /\ GenIdle
    /\ SampIdle
    /\ SideIdle

\* `yield from values` starts on a list of values of the current plan
OfferBatch ==
    /\ pc \in {"enter", "get"}
    /\ seen < MaxStream
    /\ \E n \in BatchLengths :
         values' = [sample |-> compute_results(group_unfathomed_statistics(ret)), n |-> n]
    /\ pc' = "yield"
    /\ UNCHANGED <<inputVars, pureVars, testVars, pool, pending, queue, gen, pulls, sampVars, sideVars>>

NextSchedule == Start \/ OfferBatch \/ Consume

SpecSchedule == InitSchedule /\ [][NextSchedule]_vars

-----------------------------------------------------------------------------
(* t/exact_test_sampler.py: _generate_in_parallel, the generator that      *)
(* keeps futures of a shared pool.  The consumer of its values is left     *)
(* out: it takes every value offered.                                      *)
(*                                                                         *)
(* A future is [max_results, st].  apply_async puts the task on            *)
(* pool._taskqueue ("taskqueue"); the pool's task handler thread takes the *)
(* oldest task off that queue and writes it to the pipe its workers read   *)
(* ("inqueue"), waiting while the pipe is full; an idle worker reads the   *)
(* oldest task of the pipe ("running"); the task's return makes the future *)
(* ready ("ready").                                                        *)

INITIAL_BATCH_SIZE == 10

MAX_BATCH_SIZE == 100 * 1000

BATCH_SIZE_GROWTH_FACTOR == 2

\* POOL_SIZE = os.cpu_count() - 1
POOL_SIZE == ncpu - 1

max_waiting == 2

\* messages exact_test_shuffle leaves in error_ptr when it returns false
KernelMessages == {"invalid probability"}

\* "Shuffle failed: %s" % str(FFI.string(error_ptr[0]), "utf-8"): an object
\* of type str; args holds the pieces of its text
ShuffleFailed(message) == [type |-> "str", args |-> <<"Shuffle failed: ", message>>]

\* the types of the objects at hand that derive from BaseException
ExceptionTypes == {"TypeError", "KeyError", "ZeroDivisionError", "ValueError"}

NoException == [type |-> "none", args |-> <<>>]

\* `raise obj`: an object that is no exception cannot be raised, the
\* statement raises a TypeError of its own instead
Raise(obj) ==
    IF obj.type \in ExceptionTypes THEN obj
    ELSE [type |-> "TypeError", args |-> <<"exceptions must derive from BaseException">>]

\* what compute_results ends with: its dict (NoException) or, when the
\* shuffle returns false, the exception of its raise statement
ShuffleOutcomes == {NoException} \cup {Raise(ShuffleFailed(m)) : m \in KernelMessages}

\* pool._taskqueue.qsize()
qsize(pnd) == Cardinality({i \in 1..Len(pnd) : pnd[i].st = "taskqueue"})

InPipe(pnd) == {i \in 1..Len(pnd) : pnd[i].st = "inqueue"}

\* the oldest future of pnd in state st, 0 when there is none
Oldest(pnd, st) ==
    IF \E i \in 1..Len(pnd) : pnd[i].st = st
    THEN CHOOSE i \in 1..Len(pnd) :
             pnd[i].st = st /\ \A j \in 1..(i - 1) : pnd[j].st # st
    ELSE 0

\* BATCH_SIZE_GROWTH_FACTOR * batch_size, without the cap
GrownWithoutCap(b) == BATCH_SIZE_GROWTH_FACTOR * b

\* min(BATCH_SIZE_GROWTH_FACTOR * batch_size, MAX_BATCH_SIZE)
GrownBatchSize(b) ==
    IF BATCH_SIZE_GROWTH_FACTOR * b < MAX_BATCH_SIZE
    THEN BATCH_SIZE_GROWTH_FACTOR * b ELSE MAX_BATCH_SIZE

\* the future add_work_unit appends: the worker is given batch_size as its
\* max_results
SamplerWorkUnit(b) == [max_results |-> b, st |-> "taskqueue", exc |-> NoException]

\* The first next() on the generator, up to the first fill_pending_list()
SamplerStart ==
    /\ pc = "s_start"
    /\ batch_size' = INITIAL_BATCH_SIZE
    /\ pool' = "open"
    /\ fill' = 0
    /\ pc' = "fill"
    /\ UNCHANGED <<inputVars, pureVars, testVars, pending, queue, gen, values, pulls, room, sideVars>>

\* one iteration of the loop of fill_pending_list, or its end
FillPendingList ==
    /\ pc = "fill"
    /\ IF fill >= POOL_SIZE + max_waiting \/ qsize(pending) >= max_waiting
       THEN /\ pc' = "next"
            /\ fill' = 0
            /\ UNCHANGED pending
       ELSE /\ Len(pending) < MaxPending
            /\ pending' = Append(pending, SamplerWorkUnit(batch_size))
            /\ fill' = fill + 1
            /\ UNCHANGED pc
    /\ UNCHANGED <<inputVars, pureVars, testVars, pool, queue, gen, values, pulls, batch_size, room, sideVars>>

\* One round of `for value in generate_values()`: the value is yielded, the
\* completed futures leave the pending list and their values are yielded,
\* and the batch size grows when there was one.
NextValue ==
    /\ pc = "next"
    /\ \E local \in ShuffleOutcomes :
        LET active    == SelectSeq(pending, LAMBDA f : f.st # "ready")
            completed == SelectSeq(pending, LAMBDA f : f.st = "ready")
            failed    == SelectSeq(completed, LAMBDA f : f.exc # NoException)
        IN  IF local # NoException
            THEN \* generate_values raises out of compute_results
                 /\ pc' = "raised"
                 /\ error' = local.type
                 /\ error_args' = local.args
                 /\ UNCHANGED <<pending, batch_size>>
            ELSE /\ pending' = active
                 /\ IF failed # <<>>
                    THEN \* future.get(0) raises what the work unit raised
                         /\ pc' = "raised"
                         /\ error' = Head(failed).exc.type
                         /\ error_args' = Head(failed).exc.args
                         /\ UNCHANGED batch_size
                    ELSE /\ UNCHANGED <<error, error_args>>
                         /\ IF completed # <<>>
                            THEN /\ batch_size' = GrownBatchSize(batch_size)
                                 /\ pc' = "fill"
                            ELSE UNCHANGED <<batch_size, pc>>
    /\ UNCHANGED <<inputVars, pureVars, eps, actual_stats, accumulators, ret, seen, test_every,
                   result, tested, pool, queue, gen, values, pulls, fill, room, sideVars>>

\* The consumer stops pulling: the generator, suspended at a yield, is
\* closed.  Its body has no try or with statement around the yield.
Drop ==
    /\ pc = "next"
    /\ pc' = "dropped"
    /\ UNCHANGED <<inputVars, pureVars, testVars, genVars, sampVars, sideVars>>

\* the pool's task handler moves the oldest task of _taskqueue to the pipe
TaskHandler ==
    /\ pool = "open"
    /\ Oldest(pending, "taskqueue") # 0
    /\ Cardinality(InPipe(pending)) < room
    /\ pending' = [pending EXCEPT ![Oldest(pending, "taskqueue")].st = "inqueue"]
    /\ UNCHANGED <<inputVars, pureVars, pc, testVars, pool, queue, gen, values, pulls, batch_size, fill, room, sideVars>>

\* an idle worker of the pool reads the oldest task of the pipe
WorkerGet ==
    /\ pool = "open"
    /\ Oldest(pending, "inqueue") # 0
    /\ Cardinality(Running(pending)) < POOL_SIZE
    /\ pending' = [pending EXCEPT ![Oldest(pending, "inqueue")].st = "running"]
    /\ UNCHANGED <<inputVars, pureVars, pc, testVars, pool, queue, gen, values, pulls, batch_size, fill, room, sideVars>>

\* _generate_in_parallel_worker returns its list: the future is ready
WorkerReturn ==
    /\ pool = "open"
    /\ \E i \in Running(pending) : \E outcome \in ShuffleOutcomes :
           pending' = [pending EXCEPT ![i].st = "ready", ![i].exc = outcome]
    /\ UNCHANGED <<inputVars, pureVars, pc, testVars, pool, queue, gen, values, pulls, batch_size, fill, room, sideVars>>

\* a machine of two cpus: a pool of one worker
SamplerCpuCounts == {2}

\* tasks the pipe between the task handler and the workers can hold
PipeRooms == {1, 2}

InitSampler ==
    /\ mode = "sampler"
    /\ ncpu \in SamplerCpuCounts
    /\ statistics = <<>>
    /\ data = [n \in Names |-> [actual |-> 1, null |-> 1]]
    /\ eps = [num |-> 1, den |-> 10000]
    /\ pc = "s_start"
    /\ PureIdle
    /\ TestIdle
    /\ GenIdle
    /\ batch_size = 0
    /\ fill = 0
    /\ room \in PipeRooms
    /\ SideIdle

NextSampler ==
    \/ SamplerStart
    \/ FillPendingList
    \/ NextValue
    \/ Drop
    \/ TaskHandler
    \/ WorkerGet
    \/ WorkerReturn

SpecSampler == InitSampler /\ [][NextSampler]_vars

-----------------------------------------------------------------------------
(* t/exact_test_sampler.py: one run of _generate_in_parallel_worker.  The  *)
(* clock is time.monotonic() in ticks; the generator spends 0..MaxTick     *)
(* ticks on each value, or raises.                                         *)

\* `len(results) >= max_results or time.monotonic() >= end`, with a strict
\* length test
WorkerDoneStrict(n, max_results, now, end) == n > max_results \/ now >= end

\* `len(results) >= max_results or time.monotonic() >= end`
WorkerDone(n, max_results, now, end) == n >= max_results \/ now >= end

InitWorker ==
    /\ mode = "worker"
    /\ ncpu \in SamplerCpuCounts
    /\ statistics = <<>>
    /\ data = [n \in Names |-> [actual |-> 1, null |-> 1]]
    /\ eps = [num |-> 1, den |-> 10000]
    /\ pc = "w_called"
    /\ PureIdle
    /\ TestIdle
    /\ GenIdle
    /\ SampIdle
    /\ worker \in [max_results : 1..MaxResults, max_delay : 1..MaxDelay,
                    now : 0..MaxTick, end : {0}, results : {0},
                    exc : {NoException}, st : {"called"}]
    /\ POOL = 0
    /\ POOL_LOCK = 0
    /\ constructed = 0
    /\ callers = <<>>

\* results = []; end = time.monotonic() + max_delay
WorkerEnter ==
    /\ mode = "worker"
    /\ worker.st = "called"
    /\ worker' = [worker EXCEPT !.end = worker.now + worker.max_delay,
                                !.st = "running"]
    /\ UNCHANGED <<inputVars, pureVars, pc, testVars, genVars, sampVars,
                   POOL, POOL_LOCK, constructed, callers>>

\* one turn of the for loop: the generator yields a value or raises; the
\* value is appended and the two tests are made
WorkerLoop ==
    /\ mode = "worker"
    /\ worker.st = "running"
    /\ \E outcome \in ShuffleOutcomes, dt \in 0..MaxTick :
           LET now == worker.now + dt
               n   == worker.results + 1
           IN  worker' =
                   IF outcome # NoException
                   THEN [worker EXCEPT !.now = now, !.exc = outcome,
                                       !.st = "raised"]
                   ELSE [worker EXCEPT
                             !.now = now,
                             !.results = n,
                             !.st = IF WorkerDone(n, worker.max_results, now, worker.end)
                                    THEN "returned"
                                    ELSE "running"]
    /\ UNCHANGED <<inputVars, pureVars, pc, testVars, genVars, sampVars,
                   POOL, POOL_LOCK, constructed, callers>>

NextWorker ==
    \/ WorkerEnter
    \/ WorkerLoop

SpecWorker == InitWorker /\ [][NextWorker]_vars

-----------------------------------------------------------------------------
(* t/exact_test_sampler.py: _get_pool called from MaxThreads threads, each *)
(* up to MaxCalls times.  A Pool object is named by the order of its       *)
(* construction; 0 is None.                                                *)

Threads == 1..MaxThreads

\* `with POOL_LOCK` enters whatever the lock's state
LockIgnored(lock) == TRUE

\* `with POOL_LOCK` enters when no thread holds the lock
LockFree(lock) == lock = 0

InitPool ==
    /\ mode = "pool"
    /\ ncpu \in SamplerCpuCounts
    /\ statistics = <<>>
    /\ data = [n \in Names |-> [actual |-> 1, null |-> 1]]
    /\ eps = [num |-> 1, den |-> 10000]
    /\ pc = "p_threads"
    /\ PureIdle
    /\ TestIdle
    /\ GenIdle
    /\ SampIdle
    /\ worker = NoWorker
    /\ POOL = 0
    /\ POOL_LOCK = 0
    /\ constructed = 0
    /\ callers = [t \in Threads |-> [pc |-> "idle", got |-> 0, calls |-> 0]]

\* a thread calls _get_pool()
GetPoolCall(t) ==
    /\ mode = "pool"
    /\ callers[t].pc = "idle"
    /\ callers[t].calls < MaxCalls
    /\ callers' = [callers EXCEPT ![t].pc = "with", ![t].calls = @ + 1]
    /\ UNCHANGED <<inputVars, pureVars, pc, testVars, genVars, sampVars,
                   worker, POOL, POOL_LOCK, constructed>>

\* with POOL_LOCK:
GetPoolAcquire(t) ==
    /\ mode = "pool"
    /\ callers[t].pc = "with"
    /\ LockFree(POOL_LOCK)
    /\ POOL_LOCK' = t
    /\ callers' = [callers EXCEPT ![t].pc = "if"]
    /\ UNCHANGED <<inputVars, pureVars, pc, testVars, genVars, sampVars,
                   worker, POOL, constructed>>

\* if POOL is None:
GetPoolTest(t) ==
    /\ mode = "pool"
    /\ callers[t].pc = "if"
    /\ callers' = [callers EXCEPT ![t].pc = IF POOL = 0 THEN "new" ELSE "return"]
    /\ UNCHANGED <<inputVars, pureVars, pc, testVars, genVars, sampVars,
                   worker, POOL, POOL_LOCK, constructed>>

\* POOL = Pool(POOL_SIZE)
GetPoolConstruct(t) ==
    /\ mode = "pool"
    /\ callers[t].pc = "new"
    /\ constructed' = constructed + 1
    /\ POOL' = constructed'
    /\ callers' = [callers EXCEPT ![t].pc = "return"]
    /\ UNCHANGED <<inputVars, pureVars, pc, testVars, genVars, sampVars,
                   worker, POOL_LOCK>>

\* return POOL, leaving the with block
GetPoolReturn(t) ==
    /\ mode = "pool"
    /\ callers[t].pc = "return"
    /\ callers' = [callers EXCEPT ![t].pc = "idle", ![t].got = POOL]
    /\ POOL_LOCK' = IF POOL_LOCK = t THEN 0 ELSE POOL_LOCK
    /\ UNCHANGED <<inputVars, pureVars, pc, testVars, genVars, sampVars,
                   worker, POOL, constructed>>

NextPool ==
    \E t \in Threads :
        \/ GetPoolCall(t)
        \/ GetPoolAcquire(t)
        \/ GetPoolTest(t)
        \/ GetPoolConstruct(t)
        \/ GetPoolReturn(t)

SpecPool == InitPool /\ [][NextPool]_vars

-----------------------------------------------------------------------------
(* Properties                                                              *)

\* C1: for every statistic, whenever the decision loop may look at the
\* accumulators (after any sequence of consumed samples), 0 <= lte_actual <=
\* trials, 0 <= gte_actual <= trials and lte_actual + gte_actual >= trials.
C1_AccumulatorBounds ==
    \A i \in 1..Len(accumulators) :
        LET acc == accumulators[i].val
        IN  /\ 0 <= acc.lte_actual /\ acc.lte_actual <= acc.trials
            /\ 0 <= acc.gte_actual /\ acc.gte_actual <= acc.trials
            /\ acc.lte_actual + acc.gte_actual >= acc.trials

\* a statistic whose samples fell below, on and above the actual value
C1_Witness ==
    \E i \in 1..Len(accumulators) :
        LET acc == accumulators[i].val
        IN  /\ acc.lte_actual < acc.trials
            /\ acc.gte_actual < acc.trials
            /\ acc.lte_actual + acc.gte_actual > acc.trials

\* C2: _significance_test assigns judgement -1 if lt_significant and
\* lte_actual / trials < eps; otherwise +1 if gt_significant and
\* gte_actual / trials < eps; otherwise 0 if both are significant; otherwise
\* it writes nothing to the result map.
C2_JudgementCascade ==
    pc = "sig_done" =>
        LET in   == sig_in
            low  == in.lt_significant /\ in.lte_actual * in.eps.den < in.eps.num * in.trials
            high == in.gt_significant /\ in.gte_actual * in.eps.den < in.eps.num * in.trials
            Judged(j) ==
                /\ DictHas(sig_out, "mu")
                /\ DictGet(sig_out, "mu").judgement = j
                /\ DictGet(sig_out, "mu").num_trials = in.trials
                /\ \A i \in 1..Len(in.ret) :
                       /\ DictHas(sig_out, in.ret[i].key)
                       /\ DictGet(sig_out, in.ret[i].key) = in.ret[i].val
        IN  IF low THEN Judged(-1)
            ELSE IF high THEN Judged(1)
            ELSE IF in.lt_significant /\ in.gt_significant THEN Judged(0)
            ELSE sig_out = in.ret

\* the low side is significant without being in the tail, and the high tail
\* decides
C2_Witness ==
    /\ pc = "sig_done"
    /\ sig_in.lt_significant
    /\ ~(sig_in.lte_actual * sig_in.eps.den < sig_in.eps.num * sig_in.trials)
    /\ DictHas(sig_out, "mu")
    /\ DictGet(sig_out, "mu").judgement = 1

\* occurrences of x in the sequence s
Count(x, s) == Cardinality({i \in 1..Len(s) : s[i] = x})

\* C8: _group_statistics_in_plan is lossless: the multiset of statistics in
\* the plan is the input multiset (an empty list gives an empty plan), each
\* statistic sits under the keys probability_a_lower and (a_offset, b_offset)
\* equal to its own fields, and an inner list keeps the input order.
C8_GroupingLossless ==
    pc = "grouped" =>
        /\ \A st \in Statistic : Count(st, PlanStats(plan)) = Count(st, statistics)
        /\ statistics = <<>> => plan = <<>>
        /\ \A i, j \in 1..Len(plan) : plan[i].key = plan[j].key => i = j
        /\ \A i \in 1..Len(plan) :
             /\ \A j, k \in 1..Len(plan[i].val) :
                    plan[i].val[j].key = plan[i].val[k].key => j = k
             /\ \A j \in 1..Len(plan[i].val) :
                    LET Here(st) ==
                            /\ st.probability_a_lower = plan[i].key
                            /\ <<st.a_offset, st.b_offset>> = plan[i].val[j].key
                    IN  plan[i].val[j].val = SelectSeq(statistics, Here)

\* a plan of two groups, one of them holding two statistics
C8_Witness ==
    /\ pc = "grouped"
    /\ Len(plan) = 2
    /\ \E i \in 1..Len(plan) : \E j \in 1..Len(plan[i].val) : Len(plan[i].val[j].val) = 2

\* names of the statistics given to exact_test
StatNames == {statistics[i].name : i \in 1..Len(statistics)}

\* C3: with a non-empty statistics list, exact_test returns only at a test
\* point (a positive multiple of 250 samples seen) at which every statistic
\* has a result, and at the first such point: while its loop is still
\* consuming samples some statistic is undecided, however many were seen.
C3_ReturnWhenAllDecided ==
    /\ (pc = "done" /\ statistics # <<>>) =>
           /\ \A name \in StatNames : DictHas(ret, name)
           /\ seen > 0
           /\ seen % 250 = 0
    /\ pc \in {"pull", "yield", "get"} =>
           \E name \in StatNames : ~DictHas(ret, name)

\* exact_test returned at its second test point, one statistic having been
\* decided at the first
C3_Witness ==
    /\ pc = "done"
    /\ seen = 500
    /\ \E i \in 1..Len(result) : result[i].val.num_trials = 250

\* C4: every Result in the map exact_test returns has a judgement in
\* {-1, 0, 1} and num_trials > 0, and the decision step never divides by
\* zero.
C4_ReturnedResults ==
    /\ error # "ZeroDivisionError"
    /\ pc = "done" =>
           \A i \in 1..Len(result) :
               /\ result[i].val.judgement \in {-1, 0, 1}
               /\ result[i].val.num_trials > 0

\* a returned map with two results of different judgements
C4_Witness ==
    /\ pc = "done"
    /\ \E i, j \in 1..Len(result) : result[i].val.judgement # result[j].val.judgement

\* C5: with an empty statistics list exact_test returns an empty map, and
\* no pool is created, no work unit submitted and no permutation generated.
C5_EmptyStatistics ==
    statistics = <<>> =>
        /\ pc \in {"start", "done"}
        /\ result = <<>>
        /\ pool = "none"
        /\ pending = <<>>
        /\ queue = <<>>
        /\ pulls = 0
        /\ seen = 0

\* exact_test returned for an empty statistics list
C5_Witness == statistics = <<>> /\ pc = "done"

\* C6: once a name is in the result map, its Result (actual_value,
\* judgement, num_trials) is the same in every later state, also while
\* later samples keep incrementing the name's accumulator.
C6_ResultsAreFinal ==
    [][\A i \in 1..Len(ret) :
           /\ DictHas(ret', ret[i].key)
           /\ DictGet(ret', ret[i].key) = ret[i].val]_vars

\* a decided statistic whose accumulator went through a later test point
C6_Witness ==
    \E i \in 1..Len(ret) :
        /\ DictGet(accumulators, ret[i].key).trials >= 500
        /\ ret[i].val.num_trials = 250

\* C7: every work unit is submitted with the plan that groups exactly the
\* statistics with no result at its submission, so a unit submitted after a
\* statistic was decided has a plan without that statistic.
C7_PlanOfUndecided ==
    [][LET undecided == SelectSeq(statistics, LAMBDA st : ~DictHas(ret, st.name))
           submitted ==
               IF pc = "enter" /\ pc' = "pull" THEN 1..Len(pending')
               ELSE IF pc = "pull" /\ pc' = "yield"
               THEN (Len(pending') - Cardinality(Ready(pending)) + 1)..Len(pending')
               ELSE {}
       IN  \A i \in submitted :
               /\ pending'[i].plan = _group_statistics_in_plan(undecided)
               /\ \A j \in 1..Len(PlanStats(pending'[i].plan)) :
                      ~DictHas(ret, PlanStats(pending'[i].plan)[j].name)]_vars

\* a pending work unit whose plan leaves out a decided statistic
C7_Witness ==
    \E i \in 1..Len(pending) : \E name \in StatNames :
        /\ DictHas(ret, name)
        /\ pending[i].plan # <<>>
        /\ \A j \in 1..Len(PlanStats(pending[i].plan)) :
               PlanStats(pending[i].plan)[j].name # name

\* C9: at any time during a run of the parallel generator, the futures
\* submitted to the pool and not yet collected by the controller number at
\* most POOL_SIZE + max_waiting.
C9_OutstandingBound == Len(pending) <= POOL_SIZE + max_waiting

\* C10: batch_size starts at 10; a round of the generator that collects a
\* completed future doubles it, up to 100000 (unless the round ends the
\* generator with a work unit's exception), and nothing else changes it,
\* so it never decreases and never exceeds 100000; a work unit is submitted
\* with the batch size current at its submission.
C10_BatchSizeGrowth ==
    [][IF pc = "s_start" THEN batch_size' = 10
       ELSE /\ batch_size' >= batch_size
            /\ batch_size' <= 100000
            /\ (pc = "next" /\ Len(pending') < Len(pending)) => pc' \in {"fill", "raised"}
            /\ IF pc = "next" /\ pc' = "fill"
               THEN batch_size' = IF 2 * batch_size < 100000
                                  THEN 2 * batch_size ELSE 100000
               ELSE batch_size' = batch_size
            /\ Len(pending') > Len(pending) =>
                   pending'[Len(pending')].max_results = batch_size]_vars

\* the batch size reached its cap, with a work unit submitted at the cap
\* behind one submitted with a smaller batch size
C10_Witness ==
    /\ batch_size = 100000
    /\ \E i, j \in 1..Len(pending) :
           /\ i < j
           /\ pending[i].max_results < 100000
           /\ pending[j].max_results = 100000

\* C11: once the consumer has dropped the merged stream, the pool is
\* terminated and no work unit is queued or running any more.
C11_DropTerminatesPool ==
    pc = "dropped" =>
        /\ pool = "terminated"
        /\ \A i \in 1..Len(pending) : pending[i].st \notin {"taskqueue", "inqueue", "running"}

\* C12: the round of the generator that collects a completed work unit
\* which raised ends the consumer's pull with that exception, and the pool
\* with the remaining workers is terminated.
C12_WorkerErrorTearsDown ==
    [][(/\ pc = "next"
        /\ Len(pending') < Len(pending)
        /\ \E i \in 1..Len(pending) : pending[i].st = "ready" /\ pending[i].exc # NoException)
       => /\ pc' = "raised"
          /\ \E i \in 1..Len(pending) :
                 /\ pending[i].st = "ready"
                 /\ error' = pending[i].exc.type
                 /\ error_args' = pending[i].exc.args
          /\ pool' = "terminated"]_vars

\* C13: a shuffle that returns false with a message ends the run with an
\* exception that carries that message.
C13_ShuffleMessageSurfaces ==
    pc = "raised" => \E m \in KernelMessages : \E i \in 1..Len(error_args) : error_args[i] = m

\* the eps exact_test was called with
InputEps ==
    IF pc = "start" THEN eps
    ELSE [num |-> eps.num \div 10, den |-> eps.den \div (22 * Len(statistics))]

\* statistic names are not unique, or eps is outside (0, 1)
InvalidInput ==
    \/ \E i, j \in 1..Len(statistics) : i # j /\ statistics[i].name = statistics[j].name
    \/ InputEps.num <= 0
    \/ InputEps.num >= InputEps.den

\* C14: called with statistic names that are not unique or with an eps
\* outside (0, 1), exact_test raises before it computes any statistic or
\* consumes any permutation.
C14_InvalidInputRejected ==
    (statistics # <<>> /\ pc # "start" /\ InvalidInput) =>
        /\ pc = "raised"
        /\ error # "none"
        /\ actual_stats = <<>>
        /\ seen = 0

\* C15: the map exact_test returns has exactly one entry per input
\* statistic, in the order of the input statistics list, holding the Result
\* decided for that name, whatever the order of the decisions.
C15_ResultOrder ==
    pc = "done" =>
        /\ Len(result) = Len(statistics)
        /\ \A i \in 1..Len(result) :
               /\ result[i].key = statistics[i].name
               /\ result[i].val = DictGet(ret, statistics[i].name)

\* the second statistic of the list was decided first
C15_Witness ==
    /\ pc = "done"
    /\ Len(statistics) = 2
    /\ ret[1].key = statistics[2].name
    /\ ret[1].val.num_trials < ret[2].val.num_trials

\* the judgement of "mu" in rt is -1 or +1
Significant(rt) == DictHas(rt, "mu") /\ DictGet(rt, "mu").judgement \in {-1, 1}

\* the `ret` the call of sig_in leaves when exact_test runs on n statistics
SigWith(n) ==
    _significance_test(sig_in.ret, CorrectedEps(sig_in.base, n), "mu", data["mu"].actual,
                       sig_in.lte_actual, sig_in.gte_actual, sig_in.trials,
                       sig_in.lt_significant, sig_in.gt_significant)

\* C16, as stated: a judgement of -1 or +1 reached with some number of
\* statistics is still -1 or +1 with one statistic more, for the same eps,
\* counts and csm outcomes.
C16_MoreStatisticsKeepSignificance ==
    (pc = "sig_done" /\ Significant(sig_out)) => Significant(SigWith(sig_in.num_stats + 1))

\* C16, amended: a judgement of -1 or +1 reached with some number of
\* statistics is still -1 or +1 with one statistic fewer, for the same eps,
\* counts and csm outcomes.
C16_FewerStatisticsKeepSignificance ==
    (pc = "sig_done" /\ sig_in.num_stats > 1 /\ Significant(sig_out)) =>
        Significant(SigWith(sig_in.num_stats - 1))

\* a judgement of -1 with two statistics, on a count that is not zero
C16_Witness ==
    /\ pc = "sig_done"
    /\ sig_in.num_stats = 2
    /\ sig_in.lte_actual > 0
    /\ DictHas(sig_out, "mu")
    /\ DictGet(sig_out, "mu").judgement = -1

\* C17: test_every starts at 250; the undecided statistics, and only those,
\* are evaluated exactly when the count of consumed samples reaches a
\* multiple of the current test_every; at such a point with seen >=
\* 40 * test_every, test_every is multiplied by 10; at any other count no
\* statistic is evaluated and neither ret nor test_every changes.
C17_TestSchedule ==
    [][IF pc = "start" THEN (pc' = "enter" => test_every' = 250)
       ELSE /\ seen' - seen <= test_every - (seen % test_every)
            /\ IF seen' # seen /\ seen' % test_every = 0
               THEN /\ tested'.at = seen'
                    /\ tested'.names = {name \in StatNames : ~DictHas(ret, name)}
                    /\ test_every' = IF seen' >= 40 * test_every
                                     THEN 10 * test_every ELSE test_every
               ELSE /\ tested' = tested
                    /\ ret' = ret
                    /\ test_every' = test_every]_vars

\* a round of tests at 12500 samples, the first after test_every grew to
\* 2500, that left out a statistic decided before
C17_Witness ==
    /\ test_every = 2500
    /\ tested.at = 12500
    /\ \E name \in StatNames : DictHas(ret, name) /\ name \notin tested.names

\* C18: consuming one mapping adds, for each (name, value) in it, 1 to
\* trials, 1 to lte_actual iff value <= actual[name] and 1 to gte_actual iff
\* value >= actual[name]; the accumulators of the names absent from the
\* mapping stay as they are; no accumulator field ever decreases.
C18_PerSampleUpdate ==
    [][pc # "start" =>
       \A i \in 1..Len(accumulators) :
           LET name   == accumulators[i].key
               old    == accumulators[i].val
               new    == DictGet(accumulators', name)
               actual == DictGet(actual_stats, name)
               value  == DictGet(values.sample, name)
           IN  /\ DictHas(accumulators', name)
               /\ new.trials >= old.trials
               /\ new.lte_actual >= old.lte_actual
               /\ new.gte_actual >= old.gte_actual
               /\ IF seen' = seen + 1 /\ DictHas(values.sample, name)
                  THEN /\ new.trials = old.trials + 1
                       /\ new.lte_actual = old.lte_actual + (IF value <= actual THEN 1 ELSE 0)
                       /\ new.gte_actual = old.gte_actual + (IF value >= actual THEN 1 ELSE 0)
                  ELSE new = old]_vars

\* one name was absent from a mapping the other name was in, and a tie
\* counted on both sides
C18_Witness ==
    \E i, j \in 1..Len(accumulators) :
        /\ accumulators[i].val.trials < accumulators[j].val.trials
        /\ accumulators[j].val.lte_actual + accumulators[j].val.gte_actual
               > accumulators[j].val.trials

\* C19: a worker run that returns a batch returns it at the first value
\* after which the batch holds max_results values or the deadline has passed:
\* the batch is non-empty, has at most max_results values, and has fewer only
\* if the deadline had passed; a run that goes on has neither.
C19_WorkerBatch ==
    /\ worker.st = "returned" =>
           /\ worker.results >= 1
           /\ worker.results <= worker.max_results
           /\ worker.results < worker.max_results => worker.now >= worker.end
    /\ worker.st = "running" =>
           /\ worker.results < worker.max_results
           /\ worker.results >= 1 => worker.now < worker.end

\* a batch cut short by the deadline
C19_Witness ==
    /\ worker.st = "returned"
    /\ worker.results >= 2
    /\ worker.results < worker.max_results

\* C20: under every interleaving of _get_pool calls at most one Pool is
\* constructed, and every call that returned gave that pool.
C20_OnePool ==
    /\ constructed <= 1
    /\ \A t \in DOMAIN callers :
           /\ callers[t].got # 0 => callers[t].got = POOL /\ POOL = 1
           /\ callers[t].pc = "new" => POOL = 0 /\ POOL_LOCK = t

\* every thread has called twice and holds the pool
C20_Witness ==
    /\ callers # <<>>
    /\ \A t \in DOMAIN callers : callers[t].calls = MaxCalls /\ callers[t].got = 1

\* C21: whatever the order in which the mappings of a multiset were
\* consumed, every statistic's (trials, lte_actual, gte_actual) is what
\* consuming the same mappings one after the other in list order gives.
C21_FoldCommutes ==
    (mode = "merge" /\ pc = "get") =>
        accumulators =
            FoldSeq([i \in 1..Len(accumulators) |->
                        [key |-> accumulators[i].key, val |-> ResultAccumulator]],
                    SelectSeq(queue, LAMBDA e : e.n = 0))

\* three mappings, all consumed, the last of the list first, and one name
\* below its actual value in one mapping and above it in another
C21_Witness ==
    /\ mode = "merge"
    /\ pc = "get"
    /\ Len(queue) = 3
    /\ \A i \in 1..Len(queue) : queue[i].n = 0
    /\ queue[3].at = 1
    /\ \E i, j \in 1..Len(queue), name \in Names :
           /\ DictHas(queue[i].sample, name)
           /\ DictHas(queue[j].sample, name)
           /\ DictGet(queue[i].sample, name) < DictGet(actual_stats, name)
           /\ DictGet(queue[j].sample, name) > DictGet(actual_stats, name)

\* C22: every mapping the decision loop consumes, every batch on the queue
\* and every pending work unit's plan has every statistic that is undecided
\* at that moment, under every interleaving of submissions, completions and
\* decisions; the lookup sample[name] at a test point never raises KeyError.
C22_SamplesHoldUndecided ==
    /\ error # "KeyError"
    /\ \A name \in Unfathomed(accumulators, ret) :
           /\ (pc = "yield" /\ values.n >= 1) => DictHas(values.sample, name)
           /\ \A i \in 1..Len(queue) : DictHas(queue[i].sample, name)
           /\ \A i \in 1..Len(pending) :
                  \E j \in 1..Len(PlanStats(pending[i].plan)) :
                      PlanStats(pending[i].plan)[j].name = name

\* after a decision the loop is handed a mapping of a later plan: it lacks
\* the decided name and has the undecided one
C22_Witness ==
    /\ pc = "yield"
    /\ values.n >= 1
    /\ seen >= 250
    /\ Unfathomed(accumulators, ret) # {}
    /\ \E name \in StatNames : DictHas(ret, name) /\ ~DictHas(values.sample, name)

\* C23: in every state of exact_test's loop each undecided statistic has
\* trials = seen, each decided statistic has trials <= seen and at least the
\* num_trials of its Result, and every Result's num_trials is a positive
\* multiple of 250.
C23_TrialsFollowSeen ==
    (mode = "exact_test" /\ pc \in {"enter", "pull", "yield", "get", "done"} /\ statistics # <<>>) =>
        /\ \A i \in 1..Len(accumulators) :
               IF DictHas(ret, accumulators[i].key)
               THEN /\ accumulators[i].val.trials <= seen
                    /\ accumulators[i].val.trials >= DictGet(ret, accumulators[i].key).num_trials
               ELSE accumulators[i].val.trials = seen
        /\ \A i \in 1..Len(ret) :
               /\ ret[i].val.num_trials > 0
               /\ ret[i].val.num_trials % 250 = 0

\* a statistic decided at 250 samples whose accumulator has fallen behind
\* seen, next to an undecided one that has not
C23_Witness ==
    /\ mode = "exact_test"
    /\ pc \in {"yield", "get", "pull"}
    /\ \E i, j \in 1..Len(accumulators) :
           /\ DictHas(ret, accumulators[i].key)
           /\ DictGet(ret, accumulators[i].key).num_trials = 250
           /\ accumulators[i].val.trials < seen
           /\ ~DictHas(ret, accumulators[j].key)
           /\ accumulators[j].val.trials = seen

\* C24: for an accumulator exact_test can reach (0 < trials, both counts at
\* most trials, lte_actual + gte_actual >= trials) and the corrected eps of
\* an input eps in (0, 1) and at least one statistic, the corrected eps is
\* below 1/2, lte_actual / trials < eps and gte_actual / trials < eps do not
\* both hold, and _significance_test leaves the `ret` it would leave with
\* the high tail looked at first.
C24_TailsExclusive ==
    (/\ mode = "sig"
     /\ sig_in.trials > 0
     /\ sig_in.lte_actual <= sig_in.trials
     /\ sig_in.gte_actual <= sig_in.trials
     /\ sig_in.lte_actual + sig_in.gte_actual >= sig_in.trials) =>
        /\ 2 * sig_in.eps.num < sig_in.eps.den
        /\ ~(/\ RatioBelow(sig_in.lte_actual, sig_in.trials, sig_in.eps)
             /\ RatioBelow(sig_in.gte_actual, sig_in.trials, sig_in.eps))
        /\ pc = "sig_done" =>
               sig_out = SignificanceTestHighFirst(sig_in.ret, sig_in.eps, "mu", data["mu"].actual,
                                                   sig_in.lte_actual, sig_in.gte_actual,
                                                   sig_in.trials, sig_in.lt_significant,
                                                   sig_in.gt_significant)

\* both csm calls answered significant and the low tail gave -1 on a
\* reachable accumulator
C24_Witness ==
    /\ mode = "sig"
    /\ pc = "sig_done"
    /\ sig_in.lt_significant
    /\ sig_in.gt_significant
    /\ sig_in.lte_actual <= sig_in.trials
    /\ sig_in.gte_actual <= sig_in.trials
    /\ sig_in.lte_actual + sig_in.gte_actual >= sig_in.trials
    /\ sig_in.lte_actual > 0
    /\ RatioBelow(sig_in.lte_actual, sig_in.trials, sig_in.eps)
    /\ DictHas(sig_out, "mu")
    /\ DictGet(sig_out, "mu").judgement = -1

=============================================================================
